---- MODULE Spec2Model ----
(***************************************************************************)
(* Personal-records manager: the authentication / ownership boundary of    *)
(* src/server.js (signup, login, requireAuth, list / create / delete of    *)
(* records), and the earlier server of src/unnamed/part_000, whose record  *)
(* routes are registered without any middleware.                           *)
(*                                                                         *)
(* Conventions.  A JavaScript `undefined` is the string Missing.  An       *)
(* ObjectId is a natural number; its hexadecimal string form, as it        *)
(* travels in a URL or in a token payload, is a record [valid, n].  The    *)
(* clock `now` is the NumericDate clock jsonwebtoken reads, in units of    *)
(* twelve hours.                                                           *)
(***************************************************************************)
EXTENDS Naturals, Sequences, FiniteSets, TLC

\* ------------------------------------------------------------------ bounds
MaxTime == 3          \* the clock stops advancing here
MaxOid == 3           \* ObjectIds the store hands out (users and records)
MaxInflight == 2      \* signup requests between their hash and their save

\* --------------------------------------------------------------- constants
ExpiresIn == 2        \* expiresIn: '1d', in clock units of twelve hours
SaltRounds == 10      \* bcrypt.genSalt(10)

Missing == "<undefined>"
Usernames == {"alice", "bob"}
SignupUsernames == Usernames \cup {"", Missing}
SignupPasswords == {"pw1", "", Missing}
LoginPasswords == {"pw1", "", Missing}
JWT_SECRET == "JWT_SECRET"

VARIABLES
    users,      \* the User collection: set of [id, username, password]
    records,    \* the Record collection: set of Record documents
    nextOid,    \* the next ObjectId the driver generates
    now,        \* the clock
    pending,    \* signup requests that have hashed and not yet saved
    issued,     \* the tokens clients hold: for each user, the token its last
                \* signup or login response carried
    client,     \* the page of script.js: [api, pc, records, failed]
    created,    \* history: what each caller created and has not deleted since,
                \* as [id, by, body]: the id answered, the caller's token subject,
                \* the body submitted
    last        \* the last request served at the instant `now`, with its response

vars == <<users, records, nextOid, now, pending, issued, client, created, last>>

\* ------------------------------------------------------------ ObjectIds
\* ObjectId.toJSON / toString: the 24-digit hexadecimal string.
ToHex(oid) == [valid |-> TRUE, n |-> oid]

\* A string that is no 24-digit hexadecimal string ("abc", an array index).
BadHex == [valid |-> FALSE, n |-> 0]

\* The outcome of a cast that throws (no ObjectId is 0).
CastError == 0

\* Mongoose's cast of a string to the ObjectId of a schema path or filter.
CastObjectId(s) == IF s.valid THEN s.n ELSE CastError

IdStrings == {ToHex(k) : k \in 1..MaxOid} \cup {BadHex}

\* --------------------------------------------------------------- bcrypt
\* bcrypt.hash(password, salt): throws when the data is undefined.
BcryptHash(password, salt) ==
    [alg |-> "bcrypt", rounds |-> SaltRounds, salt |-> salt, of |-> password]

\* bcrypt.compare(password, hash).
BcryptCompare(password, hash) == hash.of = password

\* The salts bcrypt.genSalt draws.  No route reads the salt of a hash.
Salts == {"salt1"}

\* ----------------------------------------------------------------- tokens
NoPayload == [id |-> BadHex, iat |-> 0, exp |-> 0]

\* HMAC of the payload under a key.
Sign(payload, key) == [key |-> key, over |-> payload]

NoToken == [wellFormed |-> FALSE, payload |-> NoPayload, sig |-> Sign(NoPayload, "")]

\* Variants of createToken: one that signs the id of the first user whatever
\* the caller passes, one whose tokens outlive the clock.
createTokenOfFirstUser(id) ==
    LET payload == [id |-> ToHex(1), iat |-> now, exp |-> now + ExpiresIn]
    IN  [wellFormed |-> TRUE, payload |-> payload, sig |-> Sign(payload, JWT_SECRET)]

createTokenNoExpiry(id) ==
    LET payload == [id |-> ToHex(id), iat |-> now, exp |-> now + ExpiresIn + MaxTime + 1]
    IN  [wellFormed |-> TRUE, payload |-> payload, sig |-> Sign(payload, JWT_SECRET)]

\* createToken: jwt.sign({ id }, JWT_SECRET, { expiresIn: '1d' }).
createToken(id) ==
    LET payload == [id |-> ToHex(id), iat |-> now, exp |-> now + ExpiresIn]
    IN  [wellFormed |-> TRUE, payload |-> payload, sig |-> Sign(payload, JWT_SECRET)]

\* jwt.verify(token, JWT_SECRET) returns the payload (TRUE) or throws (FALSE):
\* malformed or empty token, signature mismatch, or clock >= exp.
JwtVerifies(token, clock) ==
    /\ token.wellFormed
    /\ token.sig = Sign(token.payload, JWT_SECRET)
    /\ clock < token.payload.exp

\* --------------------------------------------------------------- responses
NoArg == <<>>

Response(op, hdr, arg, status, message, token, docs) ==
    [op |-> op, hdr |-> hdr, arg |-> arg, status |-> status,
     message |-> message, token |-> token, docs |-> docs]

\* No request has been served at the current instant of the clock.
NoResponse == Response("none", <<>>, NoArg, 0, "", NoToken, <<>>)

\* ------------------------------------------------------------ requireAuth
\* An Authorization header is the sequence of its space-separated parts;
\* <<>> is the absent (or empty) header.
startsWithBearer(hdr) == Len(hdr) >= 2 /\ hdr[1] = "Bearer"

\* authHeader.split(' ')[1]
HeaderToken(hdr) == hdr[2]

\* Whether requireAuth calls next().
GuardPasses(hdr, clock) ==
    /\ startsWithBearer(hdr)
    /\ JwtVerifies(HeaderToken(hdr), clock)

\* req.user_id = decodedToken.id
GuardUserId(hdr) == HeaderToken(hdr).payload.id

\* A guard that passes the verifier's reason on to the client.
GuardMessageLeaky(hdr) ==
    IF ~startsWithBearer(hdr)
    THEN "Authorization token required."
    ELSE IF HeaderToken(hdr).wellFormed /\ HeaderToken(hdr).sig.key = JWT_SECRET
    THEN "jwt expired"
    ELSE "Request is not authorized (Invalid token)."

\* The two 401 responses of requireAuth.
GuardMessage(hdr) ==
    IF ~startsWithBearer(hdr)
    THEN "Authorization token required."
    ELSE "Request is not authorized (Invalid token)."

\* The headers a client may send: none; one of another scheme; a Bearer
\* header with a string that is no token; with a token a client holds; and
\* with such a token signed again under a key that is not the server's.
Garbage == [wellFormed |-> FALSE, payload |-> NoPayload, sig |-> Sign(NoPayload, "garbage")]

Forged(t) == [t EXCEPT !.sig = Sign(t.payload, "guessed")]

Headers ==
    {<<>>, <<"Basic", Garbage>>, <<"Bearer", Garbage>>}
    \cup {<<"Bearer", t>> : t \in issued}
    \cup {<<"Bearer", Forged(t)>> : t \in issued}

\* The client stores the token of a response in place of the one it held.
Keep(token) == {t \in issued : t.payload.id # token.payload.id} \cup {token}

\* ------------------------------------------------------------ Auth routes
UserByName(username) == {u \in users : u.username = username}

\* Mongoose's `required` validator of a String path.
RequiredOk(v) == v # Missing /\ v # ""

\* No unique index is built: no insert is rejected.
DuplicateKeyNever(username) == FALSE

\* The unique index on User.username: the insert is rejected (E11000).
DuplicateKey(username) == UserByName(username) # {}

\* bcrypt.hash throws on an undefined password, and the catch block answers.
HashThrows(arg) ==
    /\ last' = Response("signup", <<>>, arg, 400,
                        "Error signing up: data and salt arguments required", NoToken, <<>>)
    /\ UNCHANGED <<users, records, nextOid, now, issued, created>>

\* POST /api/auth/signup from `new User` on: user.save() validates, inserts
\* under the unique index, and the handler answers.
SaveUser(arg, hashedPassword) ==
    IF ~RequiredOk(arg.username)
    THEN /\ last' = Response("signup", <<>>, arg, 400,
                             "Error signing up: User validation failed", NoToken, <<>>)
         /\ UNCHANGED <<users, records, nextOid, now, issued, created>>
    ELSE IF DuplicateKey(arg.username)
    THEN /\ last' = Response("signup", <<>>, arg, 400,
                             "Username already exists.", NoToken, <<>>)
         /\ UNCHANGED <<users, records, nextOid, now, issued, created>>
    ELSE /\ nextOid <= MaxOid
         /\ users' = users \cup {[id |-> nextOid, username |-> arg.username,
                                  password |-> hashedPassword]}
         /\ nextOid' = nextOid + 1
         /\ issued' = Keep(createToken(nextOid))
         /\ last' = Response("signup", <<>>, arg, 201, arg.username,
                             createToken(nextOid), <<>>)
         /\ UNCHANGED <<records, now, created>>

\* POST /api/auth/signup up to its last await before the store: bcrypt.genSalt
\* and bcrypt.hash.  Other requests are served before the handler resumes.
SignupHash ==
    \E username \in SignupUsernames, password \in SignupPasswords, salt \in Salts :
        LET arg == [username |-> username, password |-> password] IN
        /\ IF password = Missing
           THEN HashThrows(arg) /\ UNCHANGED pending
           ELSE /\ Cardinality(pending) < MaxInflight
                /\ pending' = pending \cup
                       {[arg |-> arg, hashedPassword |-> BcryptHash(password, salt)]}
                /\ UNCHANGED <<users, records, nextOid, now, issued, created, last>>
        /\ UNCHANGED client

\* POST /api/auth/signup, resumed: user.save() and the response.
SignupSave ==
    \E p \in pending :
        /\ pending' = pending \ {p}
        /\ SaveUser(p.arg, p.hashedPassword)
        /\ UNCHANGED client

\* POST /api/auth/signup served with no other request in between.
Signup ==
    \E username \in Usernames, password \in {"pw1"}, salt \in Salts :
        /\ SaveUser([username |-> username, password |-> password],
                    BcryptHash(password, salt))
        /\ UNCHANGED <<pending, client>>

\* User.findOne({ username }): some document with that username, if any.
FindOneUser(username) == UserByName(username)

\* POST /api/auth/login.
LoginWith(usernames, passwords) ==
    \E username \in usernames, password \in passwords :
        LET arg == [username |-> username, password |-> password]
            found == FindOneUser(username)
        IN
        /\ IF found = {}
           THEN /\ last' = Response("login", <<>>, arg, 400, "Invalid credentials.",
                                    NoToken, <<>>)
                /\ UNCHANGED issued
           ELSE \E user \in found :
                IF password = Missing
                THEN \* bcrypt.compare throws: the catch block answers
                     /\ last' = Response("login", <<>>, arg, 500, "Error logging in.",
                                         NoToken, <<>>)
                     /\ UNCHANGED issued
                ELSE IF ~BcryptCompare(password, user.password)
                THEN /\ last' = Response("login", <<>>, arg, 400, "Invalid credentials.",
                                         NoToken, <<>>)
                     /\ UNCHANGED issued
                ELSE /\ last' = Response("login", <<>>, arg, 200, user.username,
                                         createToken(user.id), <<>>)
                     /\ issued' = Keep(createToken(user.id))
        /\ UNCHANGED <<users, records, nextOid, now, pending, client, created>>

\* Login requests with every kind of body.
Login == LoginWith(Usernames \cup {""}, LoginPasswords)

\* Login requests of well-behaved clients, registered or not.
LoginValid == LoginWith(Usernames, {"pw1"})

\* ---------------------------------------------------------- Record routes
\* req.body[f]: undefined when the body has no such field.
Field(body, f) == IF f \in DOMAIN body THEN body[f] ELSE Missing

\* The request bodies a client posts: the form's five fields, with a userId
\* and an _id of the sender's choice added; the three required fields alone;
\* and a body with one required field empty and another absent.
Bodies ==
    { [type |-> "Account", name |-> "Email", idNumber |-> "u1",
       password |-> "p1", notes |-> "n", userId |-> ToHex(1), _id |-> ToHex(1)],
      [type |-> "Certificate", name |-> "Diploma", idNumber |-> "c7"],
      [type |-> "", idNumber |-> "u1", password |-> "p1", notes |-> "n"] }

\* RecordSchema's defaults: password defaults to '', createdAt to Date.now.
DefaultEmpty(v) == IF v = Missing THEN "" ELSE v

\* Variants of the Record construction: one that swaps two fields, one that
\* takes the owner from the request body when the body names one.
NewRecordSwapped(body, userId) ==
    [id |-> nextOid,
     type |-> Field(body, "name"),
     name |-> Field(body, "type"),
     idNumber |-> Field(body, "idNumber"),
     password |-> DefaultEmpty(Field(body, "password")),
     notes |-> Field(body, "notes"),
     userId |-> userId,
     createdAt |-> now]

NewRecordTrustingBody(body, userId) ==
    [id |-> nextOid,
     type |-> Field(body, "type"),
     name |-> Field(body, "name"),
     idNumber |-> Field(body, "idNumber"),
     password |-> DefaultEmpty(Field(body, "password")),
     notes |-> Field(body, "notes"),
     userId |-> IF "userId" \in DOMAIN body THEN CastObjectId(body.userId) ELSE userId,
     createdAt |-> now]

\* new Record({ type, name, idNumber, password, notes, userId: req.user_id })
NewRecord(body, userId) ==
    [id |-> nextOid,
     type |-> Field(body, "type"),
     name |-> Field(body, "name"),
     idNumber |-> Field(body, "idNumber"),
     password |-> DefaultEmpty(Field(body, "password")),
     notes |-> Field(body, "notes"),
     userId |-> userId,
     createdAt |-> now]

\* The schema validation record.save() runs.
RecordValid(r) ==
    /\ RequiredOk(r.type)
    /\ RequiredOk(r.name)
    /\ RequiredOk(r.idNumber)
    /\ r.userId # CastError

\* Record.find({ userId })
FindByUser(userId) == {r \in records : r.userId = userId}

\* .sort({ createdAt: -1 }): every order of the documents with createdAt
\* descending; documents with equal createdAt come in any order.
SortedDesc(S) ==
    {q \in [1..Cardinality(S) -> S] :
        /\ \A i, j \in 1..Cardinality(S) : i # j => q[i] # q[j]
        /\ \A i, j \in 1..Cardinality(S) : i < j => q[i].createdAt >= q[j].createdAt}

\* GET /api/records, for a request with the header `hdr`.
ListRecordsWith(hdr) ==
        /\ IF ~GuardPasses(hdr, now)
           THEN last' = Response("list", hdr, NoArg, 401, GuardMessage(hdr), NoToken, <<>>)
           ELSE LET userId == CastObjectId(GuardUserId(hdr)) IN
                IF userId = CastError
                THEN last' = Response("list", hdr, NoArg, 500,
                                      "Error retrieving records: Cast to ObjectId failed",
                                      NoToken, <<>>)
                ELSE \E docs \in SortedDesc(FindByUser(userId)) :
                        last' = Response("list", hdr, NoArg, 200, "", NoToken, docs)
        /\ UNCHANGED <<users, records, nextOid, now, pending, issued, created>>

\* GET /api/records
ListRecords ==
    /\ \E hdr \in Headers : ListRecordsWith(hdr)
    /\ UNCHANGED client

\* POST /api/records, for a request with the header `hdr` and a body of `bodies`.
CreateRecordWith(hdr, bodies) ==
        IF ~GuardPasses(hdr, now)
        THEN /\ last' = Response("create", hdr, NoArg, 401, GuardMessage(hdr), NoToken, <<>>)
             /\ UNCHANGED <<users, records, nextOid, now, pending, issued, created>>
        ELSE \E body \in bodies :
             LET record == NewRecord(body, CastObjectId(GuardUserId(hdr))) IN
             IF ~RecordValid(record)
             THEN /\ last' = Response("create", hdr, body, 400,
                                      "Error saving record: Record validation failed",
                                      NoToken, <<>>)
                  /\ UNCHANGED <<users, records, nextOid, now, pending, issued, created>>
             ELSE /\ nextOid <= MaxOid
                  /\ records' = records \cup {record}
                  /\ nextOid' = nextOid + 1
                  /\ last' = Response("create", hdr, body, 201, "", NoToken, <<record>>)
                  /\ created' = created \cup
                         {[id |-> ToHex(record.id), by |-> GuardUserId(hdr), body |-> body]}
                  /\ UNCHANGED <<users, now, pending, issued>>

\* POST /api/records
CreateRecord ==
    /\ \E hdr \in Headers : CreateRecordWith(hdr, Bodies)
    /\ UNCHANGED client

\* The filter { _id: req.params.id, userId: req.user_id }
MatchByIdAndUser(id, userId) == {r \in records : r.id = id /\ r.userId = userId}

\* DELETE /api/records/:id, for a request with the header `hdr` and an id
\* of `ids`.
DeleteRecordWith(hdr, ids) ==
        IF ~GuardPasses(hdr, now)
        THEN /\ last' = Response("delete", hdr, NoArg, 401, GuardMessage(hdr), NoToken, <<>>)
             /\ UNCHANGED <<users, records, nextOid, now, pending, issued, created>>
        ELSE \E id \in ids :
             IF CastObjectId(id) = CastError \/ CastObjectId(GuardUserId(hdr)) = CastError
             THEN /\ last' = Response("delete", hdr, id, 500,
                                      "Error deleting record: Cast to ObjectId failed",
                                      NoToken, <<>>)
                  /\ UNCHANGED <<users, records, nextOid, now, pending, issued, created>>
             ELSE
             LET result == MatchByIdAndUser(CastObjectId(id), CastObjectId(GuardUserId(hdr))) IN
             IF result = {}
             THEN /\ last' = Response("delete", hdr, id, 404,
                                      "Record not found or user unauthorized.", NoToken, <<>>)
                  /\ UNCHANGED <<users, records, nextOid, now, pending, issued, created>>
             ELSE /\ records' = records \ result
                  /\ last' = Response("delete", hdr, id, 200,
                                      "Record successfully deleted", NoToken, <<>>)
                  /\ created' = {c \in created : c.id # id}
                  /\ UNCHANGED <<users, nextOid, now, pending, issued>>

\* DELETE /api/records/:id
DeleteRecord ==
    /\ \E hdr \in Headers : DeleteRecordWith(hdr, IdStrings)
    /\ UNCHANGED client

\* ------------------------------------------------------------------ clock
Tick ==
    /\ now < MaxTime
    /\ now' = now + 1
    /\ last' = NoResponse
    /\ UNCHANGED <<users, records, nextOid, pending, issued, client, created>>

\* ---------------------------------------------------------- specification
\* The page of script.js as DOMContentLoaded finds it: no records, the first
\* fetchRecords() due, in a browser whose API_BASE_URL reaches the server `api`.
PageOf(api) == [api |-> api, pc |-> "load", records |-> <<>>, failed |-> FALSE]

Init ==
    /\ users = {}
    /\ records = {}
    /\ nextOid = 1
    /\ now = 0
    /\ pending = {}
    /\ issued = {}
    /\ created = {}
    /\ client = PageOf("server.js")
    /\ last = NoResponse

Next ==
    \/ Signup
    \/ LoginValid
    \/ ListRecords
    \/ CreateRecord
    \/ DeleteRecord
    \/ Tick

Spec == Init /\ [][Next]_vars

\* The Auth Gateway alone, under every kind of request body.
NextAuth ==
    \/ SignupHash
    \/ SignupSave
    \/ Login
    \/ Tick

SpecAuth == Init /\ [][NextAuth]_vars

\* ------------------------------------------- the server of unnamed/part_000
\* Its RecordSchema has no userId path and its routes take no middleware, so
\* the Authorization header of a request is never read.

\* new Record({ type, name, idNumber, password, notes })
LegacyNewRecord(body) == NewRecord(body, Missing)

LegacyRecordValid(r) ==
    /\ RequiredOk(r.type)
    /\ RequiredOk(r.name)
    /\ RequiredOk(r.idNumber)

\* GET /api/records: Record.find().sort({ createdAt: -1 })
LegacyListRecordsWith(hdr) ==
        /\ \E docs \in SortedDesc(records) :
               last' = Response("list", hdr, NoArg, 200, "", NoToken, docs)
        /\ UNCHANGED <<users, records, nextOid, now, pending, issued, created>>

LegacyListRecords ==
    /\ \E hdr \in Headers : LegacyListRecordsWith(hdr)
    /\ UNCHANGED client

\* POST /api/records
LegacyCreateRecordWith(hdr, bodies) ==
    \E body \in bodies :
        LET record == LegacyNewRecord(body) IN
        IF ~LegacyRecordValid(record)
        THEN /\ last' = Response("create", hdr, body, 400,
                                 "Error saving record: Record validation failed",
                                 NoToken, <<>>)
             /\ UNCHANGED <<users, records, nextOid, now, pending, issued, created>>
        ELSE /\ nextOid <= MaxOid
             /\ records' = records \cup {record}
             /\ nextOid' = nextOid + 1
             /\ last' = Response("create", hdr, body, 201, "", NoToken, <<record>>)
             /\ UNCHANGED <<users, now, pending, issued, created>>

LegacyCreateRecord ==
    /\ \E hdr \in Headers : LegacyCreateRecordWith(hdr, Bodies)
    /\ UNCHANGED client

\* DELETE /api/records/:id: Record.findByIdAndDelete(req.params.id)
LegacyDeleteRecordWith(hdr, ids) ==
    \E id \in ids :
        IF CastObjectId(id) = CastError
        THEN /\ last' = Response("delete", hdr, id, 500,
                                 "Error deleting record: Cast to ObjectId failed",
                                 NoToken, <<>>)
             /\ UNCHANGED <<users, records, nextOid, now, pending, issued, created>>
        ELSE LET result == {r \in records : r.id = CastObjectId(id)} IN
             IF result = {}
             THEN /\ last' = Response("delete", hdr, id, 404, "Record not found",
                                      NoToken, <<>>)
                  /\ UNCHANGED <<users, records, nextOid, now, pending, issued, created>>
             ELSE /\ records' = records \ result
                  /\ last' = Response("delete", hdr, id, 200,
                                      "Record successfully deleted", NoToken, <<>>)
                  /\ UNCHANGED <<users, nextOid, now, pending, issued, created>>

LegacyDeleteRecord ==
    /\ \E hdr \in Headers : LegacyDeleteRecordWith(hdr, IdStrings)
    /\ UNCHANGED client

NextLegacy ==
    \/ LegacyListRecords
    \/ LegacyCreateRecord
    \/ LegacyDeleteRecord
    \/ Tick

SpecLegacy == Init /\ [][NextLegacy]_vars

\* --------------------------------------------------- the page of script.js
\* The servers of the repository; both listen on port 3000, where the page's
\* API_BASE_URL points.
Apis == {"server.js", "part_000"}

\* The `headers` of the three fetch calls of the page.
FetchRecordsHeaders == <<>>
AddRecordHeaders == [h \in {"Content-Type"} |-> <<"application/json">>]
DeleteRecordHeaders == <<>>

\* The Authorization header a request with the given `headers` reaches the
\* server with.
AuthorizationOf(headers) ==
    IF "Authorization" \in DOMAIN headers THEN headers["Authorization"] ELSE <<>>

\* newRecordData: the five fields of the form, each one a string.
FormBodies ==
    { [type |-> "Account", name |-> "Email", idNumber |-> "u1",
       password |-> "p1", notes |-> "n"],
      [type |-> "Certificate", name |-> "", idNumber |-> "c7",
       password |-> "", notes |-> ""] }

\* response.ok
ResponseOk(r) == r.status >= 200 /\ r.status <= 299

\* createRecordCard: data-id is record._id, which every stored record has.
DataId(record) == ToHex(record.id)

\* The server behind API_BASE_URL serves the request.
FetchList(hdr) ==
    IF client.api = "server.js" THEN ListRecordsWith(hdr)
                                ELSE LegacyListRecordsWith(hdr)

FetchCreate(hdr, bodies) ==
    IF client.api = "server.js" THEN CreateRecordWith(hdr, bodies)
                                ELSE LegacyCreateRecordWith(hdr, bodies)

FetchDelete(hdr, ids) ==
    IF client.api = "server.js" THEN DeleteRecordWith(hdr, ids)
                                ELSE LegacyDeleteRecordWith(hdr, ids)

\* fetchRecords(): on page load and after every mutation that succeeded.
fetchRecords ==
    /\ client.pc \in {"load", "refetch"}
    /\ FetchList(AuthorizationOf(FetchRecordsHeaders))
    /\ client' = IF ResponseOk(last')
                 THEN [client EXCEPT !.pc = "idle", !.records = last'.docs,
                                     !.failed = FALSE]
                 ELSE [client EXCEPT !.pc = "idle", !.failed = TRUE]

\* addRecord(e): the form is submitted.
addRecord ==
    /\ client.pc = "idle"
    /\ FetchCreate(AuthorizationOf(AddRecordHeaders), FormBodies)
    /\ client' = IF ResponseOk(last')
                 THEN [client EXCEPT !.pc = "refetch"]
                 ELSE client

\* deleteRecord(e): the Delete button of a rendered card is clicked and the
\* confirm() dialog accepted.
deleteRecord ==
    /\ client.pc = "idle"
    /\ ~client.failed
    /\ \E i \in DOMAIN client.records :
           FetchDelete(AuthorizationOf(DeleteRecordHeaders),
                       {DataId(client.records[i])})
    /\ client' = IF ResponseOk(last')
                 THEN [client EXCEPT !.pc = "refetch"]
                 ELSE client

\* The user of the page obtains a token from the auth routes of server.js,
\* which part_000 does not have.
UserSignup == client.api = "server.js" /\ Signup
UserLogin == client.api = "server.js" /\ LoginValid

InitClient ==
    /\ users = {}
    /\ records = {}
    /\ nextOid = 1
    /\ now = 0
    /\ pending = {}
    /\ issued = {}
    /\ created = {}
    /\ client \in {PageOf(api) : api \in Apis}
    /\ last = NoResponse

NextClient ==
    \/ UserSignup
    \/ UserLogin
    \/ fetchRecords
    \/ addRecord
    \/ deleteRecord
    \/ Tick

SpecClient == InitClient /\ [][NextClient]_vars


\* ================================================================ claims
RecordOps == {"list", "create", "delete"}

\* The request `r` carries a token that was issued to some user.
CarriesIssued(r) == Len(r.hdr) >= 2 /\ r.hdr[2] \in issued

\* The user that token was issued for.
IssuedFor(r) == r.hdr[2].payload.id.n

\* The step serves a request of the given kinds and answers it.
Answers(ops) == last'.op \in ops /\ last' # last

SeqRange(q) == {q[i] : i \in 1..Len(q)}

\* C1: a record request carrying a token issued for user A returns only
\* records owned by A, creates only records owned by A whatever its body
\* holds, removes only records owned by A, and leaves the records of every
\* other user as they were.
C1_Step ==
    (Answers(RecordOps) /\ CarriesIssued(last')) =>
        LET A == IssuedFor(last') IN
        /\ \A d \in SeqRange(last'.docs) : d.userId = A
        /\ \A r \in records' \ records : r.userId = A
        /\ \A r \in records \ records' : r.userId = A
        /\ {r \in records' : r.userId # A} = {r \in records : r.userId # A}

\* C1: every step that answers a record request carrying A's token touches
\* and returns records of A only.
Thm_C1 == [][C1_Step]_vars

\* A asks to delete a record that another user owns.
Wit_C1 ==
    /\ last.op = "delete"
    /\ CarriesIssued(last)
    /\ last.status # 401
    /\ \E r \in records : r.userId # IssuedFor(last) /\ last.arg = ToHex(r.id)

\* C2: for an authenticated caller A and any id, DELETE removes a record
\* only when a record with that id exists and A owns it; in every other case
\* the answer is the same 404 and the store is unchanged.
C2_Step ==
    (Answers({"delete"}) /\ GuardPasses(last'.hdr, now)) =>
        LET A == GuardUserId(last'.hdr).n
            own == {r \in records : ToHex(r.id) = last'.arg /\ r.userId = A}
        IN  IF own # {}
            THEN /\ last'.status = 200
                 /\ records' = records \ own
            ELSE /\ last'.status = 404
                 /\ last'.message = "Record not found or user unauthorized."
                 /\ records' = records

\* C2: every step that answers an authenticated DELETE deletes the caller's
\* record of that id, or answers the one 404 and changes nothing.
Cex_C2 == [][C2_Step]_vars

\* C3: a request to a record endpoint with no Authorization header, a header
\* that is not 'Bearer <token>', a badly signed token or an expired one gets
\* 401, no Record in the response, and creates or deletes nothing.
C3_Step ==
    (Answers(RecordOps) /\ ~GuardPasses(last'.hdr, now)) =>
        /\ last'.status = 401
        /\ last'.docs = <<>>
        /\ records' = records

\* C3: every step that answers a record request the Access Guard does not
\* pass answers 401 with no Record and changes no Record.
Cex_C3 == [][C3_Step]_vars

\* The four ways the Access Guard rejects a request, read off the request.
HeaderMissing(hdr) == hdr = <<>>

HeaderMalformed(hdr) == hdr # <<>> /\ ~(Len(hdr) >= 2 /\ hdr[1] = "Bearer")

BadSignature(hdr) ==
    /\ Len(hdr) >= 2
    /\ hdr[1] = "Bearer"
    /\ (~hdr[2].wellFormed \/ hdr[2].sig.key # JWT_SECRET)

Expired(hdr, clock) ==
    /\ Len(hdr) >= 2
    /\ hdr[1] = "Bearer"
    /\ hdr[2].wellFormed
    /\ hdr[2].sig.key = JWT_SECRET
    /\ clock >= hdr[2].payload.exp

Rejected(r) ==
    /\ r.op \in RecordOps
    /\ \/ HeaderMissing(r.hdr)
       \/ HeaderMalformed(r.hdr)
       \/ BadSignature(r.hdr)
       \/ Expired(r.hdr, now)

\* C6 as stated: every rejection of the Access Guard, whatever its cause, is
\* the response a request with no Authorization header gets.
Cex_C6 ==
    Rejected(last) =>
        /\ last.status = 401
        /\ last.message = "Authorization token required."

\* C6 amended: every rejection has status 401; a missing and a malformed
\* header get one body, a badly signed and an expired token get another
\* body, and nothing in the response tells a bad signature from an expiry.
Thm_C6 ==
    Rejected(last) =>
        /\ last.status = 401
        /\ last.token = NoToken
        /\ last.docs = <<>>
        /\ (HeaderMissing(last.hdr) \/ HeaderMalformed(last.hdr))
               => last.message = "Authorization token required."
        /\ (BadSignature(last.hdr) \/ Expired(last.hdr, now))
               => last.message = "Request is not authorized (Invalid token)."

\* A token that was issued and has expired is presented and rejected.
Wit_C6 ==
    /\ last.op \in RecordOps
    /\ Expired(last.hdr, now)
    /\ last.hdr[2] \in issued
    /\ last.status = 401

\* C9: a token issued at time t is accepted on every request made before
\* t + 24h, whatever requests were served in between, and rejected with 401
\* on every request made after t + 24h.
Thm_C9 ==
    (last.op \in RecordOps /\ Len(last.hdr) >= 2 /\ last.hdr[1] = "Bearer"
        /\ last.hdr[2] \in issued) =>
        LET t == last.hdr[2].payload.iat IN
        /\ now < t + ExpiresIn => last.status # 401
        /\ now > t + ExpiresIn => last.status = 401

\* A token is accepted at a later clock value than it was issued at, after
\* another user has signed up or logged in since; the same token can no
\* longer be accepted once the clock has passed its expiry.
Wit_C9 ==
    /\ last.op \in RecordOps
    /\ Len(last.hdr) >= 2
    /\ last.hdr[1] = "Bearer"
    /\ last.hdr[2] \in issued
    /\ last.status # 401
    /\ now > last.hdr[2].payload.iat
    /\ \E t \in issued : t.payload.iat > last.hdr[2].payload.iat

\* The same token is rejected after its expiry.
Wit_C9_Expired ==
    /\ last.op \in RecordOps
    /\ Len(last.hdr) >= 2
    /\ last.hdr[1] = "Bearer"
    /\ last.hdr[2] \in issued
    /\ now > last.hdr[2].payload.iat + ExpiresIn
    /\ last.status = 401

\* The document `d` holds what was submitted in `body`, under server-assigned
\* id and createdAt.
HoldsSubmitted(d, body) ==
    /\ d.type = body.type
    /\ d.name = body.name
    /\ d.idNumber = body.idNumber
    /\ ("password" \in DOMAIN body => d.password = body.password)
    /\ ("notes" \in DOMAIN body => d.notes = body.notes)
    /\ d.id \in 1..MaxOid
    /\ d.createdAt \in 0..MaxTime

\* C10: a create with valid fields answers a Record holding the submitted
\* fields, a fresh id and the createdAt of that moment; a list by an identity
\* holds exactly the records that identity has created and not deleted since,
\* each once and each with what was submitted, and has status 200 also when
\* there are none; a delete by the returned id removes the record from it.
C10_Step ==
    /\ (Answers({"create"}) /\ last'.status = 201) =>
           LET d == last'.docs[1] IN
           /\ HoldsSubmitted(d, last'.arg)
           /\ d.createdAt = now
           /\ \A r \in records : r.id # d.id
           /\ \A u \in users : u.id # d.id
           /\ \E c \in created' : c.id = ToHex(d.id) /\ c.by = GuardUserId(last'.hdr)
    /\ (Answers({"list"}) /\ GuardPasses(last'.hdr, now)) =>
           LET mine == {c \in created : c.by = GuardUserId(last'.hdr)} IN
           /\ last'.status = 200
           /\ Len(last'.docs) = Cardinality(mine)
           /\ \A c \in mine : \E d \in SeqRange(last'.docs) :
                  ToHex(d.id) = c.id /\ HoldsSubmitted(d, c.body)
    /\ (Answers({"delete"}) /\ last'.status = 200) =>
           /\ \E c \in created : c.id = last'.arg /\ c.by = GuardUserId(last'.hdr)
           /\ \A c \in created' : c.id # last'.arg

\* C10: every step that answers a create, a list or a delete keeps the
\* round trip of the caller's records.
Thm_C10 == [][C10_Step]_vars

\* The only user lists after its only record was deleted: an empty
\* collection, status 200.
Wit_C10 ==
    /\ last.op = "list"
    /\ last.status = 200
    /\ last.docs = <<>>
    /\ Cardinality(users) = 1
    /\ nextOid > 2
    /\ records = {}

\* A list answers two records of the caller.
Wit_C10_Two ==
    /\ last.op = "list"
    /\ last.status = 200
    /\ Len(last.docs) = 2

\* ------------------------------------------------------- the Auth Gateway
\* The step answers a signup request: the handler resumes from its hash and
\* saves, or bcrypt.hash has thrown.
SignupAnswered ==
    /\ last'.op = "signup"
    /\ \/ pending' \subseteq pending /\ pending' # pending
       \/ pending' = pending /\ last' # last

UniqueUsernames == \A u, v \in users : u.username = v.username => u = v

\* C4 as stated: at most one User per username, and a signup for a username
\* that already has a User, also one interleaved with another signup for it,
\* fails with 400 'Username already exists.', returns no token and persists
\* no second User.
C4_StepAsStated ==
    /\ UniqueUsernames'
    /\ (SignupAnswered /\ UserByName(last'.arg.username) # {}) =>
           /\ last'.status = 400
           /\ last'.message = "Username already exists."
           /\ last'.token = NoToken
           /\ users' = users

\* C4 as stated, over every step.
Cex_C4 == [][C4_StepAsStated]_vars

\* C4 amended: at most one User per username; a signup that supplies a
\* password (any string) for a username that already has a User fails with
\* 400 'Username already exists.', and one that supplies no password fails
\* with the 400 of the failed hash; either returns no token and persists no
\* second User.
C4_Step ==
    /\ UniqueUsernames'
    /\ (SignupAnswered /\ UserByName(last'.arg.username) # {}) =>
           /\ last'.status = 400
           /\ last'.message =
                  IF last'.arg.password = Missing
                  THEN "Error signing up: data and salt arguments required"
                  ELSE "Username already exists."
           /\ last'.token = NoToken
           /\ users' = users

\* C4 amended, over every step.
Thm_C4 == [][C4_Step]_vars

\* The later of two signups for one username is answered while another
\* signup is between its hash and its save.
Wit_C4 ==
    /\ last.op = "signup"
    /\ last.message = "Username already exists."
    /\ \E u \in users : u.username = last.arg.username /\ u.password.of # last.arg.password
    /\ pending # {}

\* C5: every login that does not present a stored username with its correct
\* password gets the one InvalidCredentials response, whether the username
\* has no User or the password does not verify, and no token.
C5_Step ==
    (Answers({"login"})
        /\ ~\E u \in users : /\ u.username = last'.arg.username
                             /\ BcryptCompare(last'.arg.password, u.password)) =>
        /\ last'.status = 400
        /\ last'.message = "Invalid credentials."
        /\ last'.token = NoToken
        /\ issued' = issued

\* C5: every step that answers a failed login answers InvalidCredentials.
Cex_C5 == [][C5_Step]_vars

\* C7: signup fails with 400 whenever the username or the password is
\* missing or empty; no User is persisted and no token returned.
C7_Step ==
    (SignupAnswered
        /\ (last'.arg.username \in {Missing, ""} \/ last'.arg.password \in {Missing, ""})) =>
        /\ last'.status = 400
        /\ last'.token = NoToken
        /\ users' = users

\* C7: every step that answers a signup with a missing or empty username or
\* password answers 400 and persists no User.
Cex_C7 == [][C7_Step]_vars

\* C8: the token of every successful signup and login passes the Access
\* Guard, and its verified subject is the id of the User created or matched;
\* tokens for two different usernames never verify to the same identity.
Thm_C8 ==
    /\ (last.op \in {"signup", "login"} /\ last.status \in {200, 201}) =>
           /\ GuardPasses(<<"Bearer", last.token>>, now)
           /\ \E u \in users :
                  /\ u.username = last.arg.username
                  /\ BcryptCompare(last.arg.password, u.password)
                  /\ CastObjectId(GuardUserId(<<"Bearer", last.token>>)) = u.id
    /\ \A t \in issued :
           Cardinality({u \in users : ToHex(u.id) = t.payload.id}) = 1
    /\ \A u, v \in users : u.username # v.username => u.id # v.id

\* A login succeeds for the second of two users.
Wit_C8 ==
    /\ last.op = "login"
    /\ last.status = 200
    /\ Cardinality(users) = 2
    /\ \E u \in users : u.id > 1 /\ ToHex(u.id) = last.token.payload.id

\* The Client Session Manager is Authenticated: a token is stored for the
\* user of the page.
Authenticated == issued # {}

\* The request `r` is one the server's Access Guard let through.
PassedGuard(r) == GuardPasses(r.hdr, now) /\ r.status # 401

C11_Step ==
    (Answers(RecordOps) /\ Authenticated) =>
        /\ Len(last'.hdr) = 2
        /\ last'.hdr[1] = "Bearer"
        /\ last'.hdr[2] \in issued
        /\ JwtVerifies(last'.hdr[2], now) => PassedGuard(last')

\* C11: every step in which the page, while a token is stored for its user,
\* has a list, create or delete request answered sends that token as
\* 'Authorization: Bearer <token>', and the request passes the Access Guard
\* as long as the token has not expired.
Cex_C11 == [][C11_Step]_vars

====
